---- MODULE Spec2Model ----
(***************************************************************************)
(* User-management HTTP service (gin + sqlc/pgx over PostgreSQL).          *)
(*                                                                         *)
(* The model covers the user endpoints of core/user/handler/user.go, the   *)
(* repository of core/user/repository (src/unnamed/part_001) and the SQL   *)
(* statements of db/queries/users.sql.  Each request runs on its own       *)
(* thread; a handler is cut into steps only at its storage calls, which    *)
(* are the points where another request's statement can be interleaved.    *)
(***************************************************************************)
EXTENDS Integers, Sequences, FiniteSets, TLC

----------------------------------------------------------------------------
(* Bounds of the model *)

\* largest value the users_id_seq sequence hands out
MaxId == 2
\* largest reading of time.Now()
MaxClock == 1
\* the readings of time.Now(): the wall clock may stand still between two
\* calls, and may be set back
Times == 0..MaxClock

\* the request threads
Threads == {"t1", "t2"}

\* request bodies that pass the binding validation
Usernames == {"alice", "bob"}
Emails == {"a@x.io", "b@x.io"}
\* the credential every request carries
Password == "password123"

----------------------------------------------------------------------------
(* Strings as sequences of one-character strings, and strconv.Atoi *)

Digits == {"0", "1", "2", "3", "4", "5", "6", "7", "8", "9"}

DigitVal(c) ==
    CASE c = "0" -> 0 [] c = "1" -> 1 [] c = "2" -> 2 [] c = "3" -> 3
      [] c = "4" -> 4 [] c = "5" -> 5 [] c = "6" -> 6 [] c = "7" -> 7
      [] c = "8" -> 8 [] c = "9" -> 9

DigitChar(n) ==
    CASE n = 0 -> "0" [] n = 1 -> "1" [] n = 2 -> "2" [] n = 3 -> "3"
      [] n = 4 -> "4" [] n = 5 -> "5" [] n = 6 -> "6" [] n = 7 -> "7"
      [] n = 8 -> "8" [] n = 9 -> "9"

\* the decimal text of a small natural number (strconv.Itoa)
RECURSIVE Itoa(_)
Itoa(n) == IF n < 10 THEN <<DigitChar(n)>>
           ELSE Itoa(n \div 10) \o <<DigitChar(n % 10)>>

\* upper end of the offset window
MaxOffset == 1000000
\* upper end of the limit window
MaxLimit == 100
\* lower end of the limit window
MinLimit == 1
\* lower end of the offset window
MinOffset == 0
\* limit of a request that names none
DefaultLimit == 10
\* offset of a request that names none
DefaultOffset == 0

\* Integers are kept exactly up to Huge and every larger magnitude is kept
\* as Huge: Huge lies above every number the handlers compare against, so
\* comparisons and clamping see what they would see on the exact value.
Huge == MaxOffset + 1

RECURSIVE Magnitude(_, _)
Magnitude(ds, acc) ==
    IF ds = <<>> THEN acc
    ELSE LET n == acc * 10 + DigitVal(Head(ds))
         IN Magnitude(Tail(ds), IF n > Huge THEN Huge ELSE n)

RECURSIVE StripZeros(_)
StripZeros(ds) ==
    IF ds # <<>> /\ Head(ds) = "0" THEN StripZeros(Tail(ds)) ELSE ds

\* decimal digits of 1<<63 - 1 and of 1<<63, the ends of a 64-bit int
MaxInt64Text == <<"9","2","2","3","3","7","2","0","3","6","8","5","4","7","7","5","8","0","7">>
MinInt64Text == <<"9","2","2","3","3","7","2","0","3","6","8","5","4","7","7","5","8","0","8">>

\* a > b for two digit strings of equal length
RECURSIVE DigitsGreater(_, _)
DigitsGreater(a, b) ==
    IF a = <<>> THEN FALSE
    ELSE IF Head(a) # Head(b) THEN DigitVal(Head(a)) > DigitVal(Head(b))
    ELSE DigitsGreater(Tail(a), Tail(b))

\* the magnitude ds does not fit the int type
OutOfRange(ds, neg) ==
    LET sig == StripZeros(ds)
        cut == IF neg THEN MinInt64Text ELSE MaxInt64Text
    IN  \/ Len(sig) > Len(cut)
        \/ Len(sig) = Len(cut) /\ DigitsGreater(sig, cut)

IsDecimal(s) ==
    LET body == IF s # <<>> /\ s[1] \in {"-", "+"} THEN Tail(s) ELSE s
    IN  body # <<>> /\ \A i \in 1..Len(body) : body[i] \in Digits

\* the number a decimal text denotes (exact up to Huge)
DecimalValue(s) ==
    LET signed == s[1] \in {"-", "+"}
        body == IF signed THEN Tail(s) ELSE s
        m == Magnitude(body, 0)
    IN  IF s[1] = "-" THEN 0 - m ELSE m

\* strconv.Atoi: the value and the error ("nil", "ErrSyntax", "ErrRange")
Atoi(s) ==
    IF ~IsDecimal(s) THEN [n |-> 0, err |-> "ErrSyntax"]
    ELSE LET signed == s[1] \in {"-", "+"}
             body == IF signed THEN Tail(s) ELSE s
         IN  IF OutOfRange(body, s[1] = "-")
             THEN [n |-> DecimalValue(s), err |-> "ErrRange"]
             ELSE [n |-> DecimalValue(s), err |-> "nil"]

----------------------------------------------------------------------------
(* Handler helpers *)

\* parseUserID: the int32 identifier, or the 400 message
parseUserID(idStr) ==
    LET r == Atoi(idStr)
    IN  IF r.err # "nil" THEN [id |-> 0, err |-> "invalid user ID"]
        ELSE IF r.n <= 0 THEN [id |-> 0, err |-> "user ID must be positive"]
        ELSE [id |-> r.n, err |-> "nil"]

\* parseIntQuery: default for an absent value, else the clamped integer
parseIntQuery(value, defaultValue, min, max) ==
    IF value = <<>> THEN [n |-> defaultValue, err |-> "nil"]
    ELSE LET r == Atoi(value)
         IN  IF r.err # "nil" THEN [n |-> 0, err |-> "invalid integer value"]
             ELSE LET lo == IF r.n < min THEN min ELSE r.n
                      hi == IF lo > max THEN max ELSE lo
                  IN  [n |-> hi, err |-> "nil"]

----------------------------------------------------------------------------
(* Errors.  Go compares errors by identity (err == sql.ErrNoRows) and by   *)
(* type assertion to a pgconn.PgError pointer; `kind` carries both.        *)

NilErr == [kind |-> "nil", Code |-> "", ConstraintName |-> "", Message |-> ""]

\* database/sql's sentinel, the one the handlers compare against
SqlErrNoRows ==
    [kind |-> "sql.ErrNoRows", Code |-> "", ConstraintName |-> "",
     Message |-> "sql: no rows in result set"]

\* what a pgx Row.Scan returns when the statement selected no row: a value
\* of the pgx package, the driver the repository is built on
PgxErrNoRows ==
    [kind |-> "pgx.ErrNoRows", Code |-> "", ConstraintName |-> "",
     Message |-> "no rows in result set"]

PgError(code, constraint, message) ==
    [kind |-> "*pgconn.PgError", Code |-> code, ConstraintName |-> constraint,
     Message |-> message]

\* SQLSTATE unique_violation
UniqueViolation == "23505"

\* the two UNIQUE column constraints of the users table, as PostgreSQL names them
UsernameKey == "users_username_key"
EmailKey == "users_email_key"

----------------------------------------------------------------------------
(* The users table and the statements of db/queries/users.sql *)

\* time.Time{}
ZeroTime == 0 - 1

NoRow ==
    [id |-> 0, username |-> "", email |-> "", password |-> "",
     created_at |-> ZeroTime, updated_at |-> ZeroTime]

Ids(tbl) == DOMAIN tbl

\* the unique constraints a row with this username and email would break,
\* the row `self` (0 for none) not counted
Violated(tbl, self, username, email) ==
    {c \in {UsernameKey, EmailKey} :
        \E i \in Ids(tbl) \ {self} :
            \/ c = UsernameKey /\ tbl[i].username = username
            \/ c = EmailKey /\ tbl[i].email = email}

DuplicateKey(c) ==
    PgError(UniqueViolation, c, "duplicate key value violates unique constraint")

\* -- name: CreateUser :one.  The id default draws from the sequence before
\* the constraints are checked.  The outcomes: PostgreSQL reports one of the
\* constraints the row breaks.
SqlCreateUser(tbl, nextval, p) ==
    LET row == [id |-> nextval, username |-> p.Username, email |-> p.Email,
                password |-> p.Password, created_at |-> p.CreatedAt,
                updated_at |-> p.UpdatedAt]
        bad == Violated(tbl, 0, p.Username, p.Email)
    IN  IF bad = {}
        THEN {[users |-> [i \in Ids(tbl) \cup {nextval} |->
                              IF i = nextval THEN row ELSE tbl[i]],
               row |-> row, err |-> NilErr]}
        ELSE {[users |-> tbl, row |-> NoRow, err |-> DuplicateKey(c)] : c \in bad}

\* -- name: GetUserByID :one
SqlGetUserByID(tbl, id) ==
    IF id \in Ids(tbl) THEN [row |-> tbl[id], err |-> NilErr]
    ELSE [row |-> NoRow, err |-> PgxErrNoRows]

\* -- name: UserExists :one
SqlUserExists(tbl, email) == \E i \in Ids(tbl) : tbl[i].email = email

\* UpdateUser with created_at in its SET list
SqlUpdateUser_setsCreatedAt(tbl, p) ==
    IF p.ID \notin Ids(tbl) THEN {[users |-> tbl, err |-> NilErr]}
    ELSE LET bad == Violated(tbl, p.ID, p.Username, p.Email)
         IN  IF bad = {}
             THEN {[users |-> [tbl EXCEPT ![p.ID].username = p.Username,
                                          ![p.ID].email = p.Email,
                                          ![p.ID].created_at = p.UpdatedAt,
                                          ![p.ID].updated_at = p.UpdatedAt],
                    err |-> NilErr]}
             ELSE {[users |-> tbl, err |-> DuplicateKey(c)] : c \in bad}

\* -- name: UpdateUser :exec.  A statement that matches no row succeeds.
SqlUpdateUser(tbl, p) ==
    IF p.ID \notin Ids(tbl) THEN {[users |-> tbl, err |-> NilErr]}
    ELSE LET bad == Violated(tbl, p.ID, p.Username, p.Email)
         IN  IF bad = {}
             THEN {[users |-> [tbl EXCEPT ![p.ID].username = p.Username,
                                          ![p.ID].email = p.Email,
                                          ![p.ID].updated_at = p.UpdatedAt],
                    err |-> NilErr]}
             ELSE {[users |-> tbl, err |-> DuplicateKey(c)] : c \in bad}

\* -- name: DeleteUser :exec.  A statement that matches no row succeeds.
SqlDeleteUser(tbl, id) ==
    [users |-> [i \in Ids(tbl) \ {id} |-> tbl[i]], err |-> NilErr]

\* -- name: CountUsers :one
SqlCountUsers(tbl) == Cardinality(Ids(tbl))

\* the sequences that hold every element of S once
RECURSIVE Perms(_)
Perms(S) ==
    IF S = {} THEN {<<>>}
    ELSE UNION {{<<x>> \o q : q \in Perms(S \ {x})} : x \in S}

\* ORDER BY created_at DESC: every order of the rows in which no row comes
\* before a row created later; rows created at the same time come in any order
OrderByCreatedAtDesc(tbl) ==
    {q \in Perms(Ids(tbl)) :
        \A i, j \in 1..Len(q) :
            i < j => tbl[q[i]].created_at >= tbl[q[j]].created_at}

Min(a, b) == IF a < b THEN a ELSE b
Max(a, b) == IF a > b THEN a ELSE b

\* LIMIT taken as the index of the last row, one row too many
LimitOffset_inclusive(q, limit, offset) ==
    SubSeq(q, offset + 1, Min(Len(q), offset + limit + 1))

\* LIMIT $1 OFFSET $2
LimitOffset(q, limit, offset) ==
    SubSeq(q, offset + 1, Min(Len(q), offset + limit))

\* -- name: GetUsersWithPagination :many.  The outcomes: one per admissible order.
SqlGetUsersWithPagination(tbl, limit, offset) ==
    {[i \in 1..Len(pg) |->
        [id |-> tbl[pg[i]].id, username |-> tbl[pg[i]].username,
         email |-> tbl[pg[i]].email, created_at |-> tbl[pg[i]].created_at,
         updated_at |-> tbl[pg[i]].updated_at]] :
      pg \in {LimitOffset(q, limit, offset) : q \in OrderByCreatedAtDesc(tbl)}}

----------------------------------------------------------------------------
(* UserRepository *)

\* model.User
NoUser ==
    [ID |-> 0, Username |-> "", Email |-> "", Password |-> "",
     CreatedAt |-> ZeroTime, UpdatedAt |-> ZeroTime]

\* sqlcUserToModelUser (every stored timestamp is Valid)
sqlcUserToModelUser(row) ==
    [ID |-> row.id, Username |-> row.username, Email |-> row.email,
     Password |-> row.password, CreatedAt |-> row.created_at,
     UpdatedAt |-> row.updated_at]

\* the error CreateUser and UpdateUser return for a failed statement: a
\* unique violation of a known constraint is replaced by a fresh PgError
\* that carries the code and a message, and no constraint name
WriteErr(err) ==
    IF err.kind = "*pgconn.PgError" /\ err.Code = UniqueViolation
    THEN IF err.ConstraintName \in {"users_email_unique", "users_email_key"}
         THEN PgError(UniqueViolation, "", "user with this email already exists")
         ELSE IF err.ConstraintName \in {"users_username_unique", "users_username_key"}
         THEN PgError(UniqueViolation, "", "user with this username already exists")
         ELSE err
    ELSE err

\* CreateUser without `user.ID = result.ID`
UserRepository_CreateUser_noID(tbl, nextval, user, now) ==
    {IF o.err # NilErr
     THEN [users |-> o.users, user |-> user, err |-> WriteErr(o.err)]
     ELSE [users |-> o.users,
           user |-> [user EXCEPT !.CreatedAt = now, !.UpdatedAt = now],
           err |-> NilErr] :
     o \in SqlCreateUser(tbl, nextval,
              [Username |-> user.Username, Email |-> user.Email,
               Password |-> user.Password, CreatedAt |-> now, UpdatedAt |-> now])}

\* UserRepository.CreateUser: the outcomes [users, user, err]
UserRepository_CreateUser(tbl, nextval, user, now) ==
    {IF o.err # NilErr
     THEN [users |-> o.users, user |-> user, err |-> WriteErr(o.err)]
     ELSE [users |-> o.users,
           user |-> [user EXCEPT !.ID = o.row.id, !.CreatedAt = now, !.UpdatedAt = now],
           err |-> NilErr] :
     o \in SqlCreateUser(tbl, nextval,
              [Username |-> user.Username, Email |-> user.Email,
               Password |-> user.Password, CreatedAt |-> now, UpdatedAt |-> now])}

\* UserRepository.GetUserByID
UserRepository_GetUserByID(tbl, id) ==
    LET o == SqlGetUserByID(tbl, id)
    IN  IF o.err # NilErr
        THEN IF o.err = SqlErrNoRows
             THEN [user |-> NoUser, err |-> SqlErrNoRows]
             ELSE [user |-> NoUser, err |-> o.err]
        ELSE [user |-> sqlcUserToModelUser(o.row), err |-> NilErr]

\* UserRepository.UpdateUser: the outcomes [users, user, err]
UserRepository_UpdateUser(tbl, user, now) ==
    {IF o.err # NilErr
     THEN [users |-> o.users, user |-> user, err |-> WriteErr(o.err)]
     ELSE [users |-> o.users, user |-> [user EXCEPT !.UpdatedAt = now],
           err |-> NilErr] :
     o \in SqlUpdateUser(tbl,
              [ID |-> user.ID, Username |-> user.Username, Email |-> user.Email,
               UpdatedAt |-> now])}

\* UserRepository.DeleteUser
UserRepository_DeleteUser(tbl, id) == SqlDeleteUser(tbl, id)

\* UserRepository.UserExists
UserRepository_UserExists(tbl, email) ==
    [exists |-> SqlUserExists(tbl, email), err |-> NilErr]

\* UserRepository.GetUsersWithPagination: the possible pages; the password
\* is not selected
UserRepository_GetUsersWithPagination(tbl, limit, offset) ==
    {[i \in 1..Len(rows) |->
        [ID |-> rows[i].id, Username |-> rows[i].username, Email |-> rows[i].email,
         Password |-> "", CreatedAt |-> rows[i].created_at,
         UpdatedAt |-> rows[i].updated_at]] :
     rows \in SqlGetUsersWithPagination(tbl, limit, offset)}

\* UserRepository.CountUsers
UserRepository_CountUsers(tbl) == SqlCountUsers(tbl)

\* utils.HashPassword: an opaque credential derived from the password
HashPassword(password) ==
    IF password = Password THEN "$2a$10$password123" ELSE "$2a$10$other"

\* -- name: GetUserByEmail :one (email is unique)
SqlGetUserByEmail(tbl, email) ==
    IF \E i \in Ids(tbl) : tbl[i].email = email
    THEN [row |-> tbl[CHOOSE i \in Ids(tbl) : tbl[i].email = email], err |-> NilErr]
    ELSE [row |-> NoRow, err |-> PgxErrNoRows]

\* -- name: UpdatePassword :exec.  A statement that matches no row succeeds.
SqlUpdatePassword(tbl, p) ==
    IF p.ID \notin Ids(tbl) THEN [users |-> tbl, err |-> NilErr]
    ELSE [users |-> [tbl EXCEPT ![p.ID].password = p.Password,
                                ![p.ID].updated_at = p.UpdatedAt],
          err |-> NilErr]

\* UserRepository.GetUserByEmail
UserRepository_GetUserByEmail(tbl, email) ==
    LET o == SqlGetUserByEmail(tbl, email)
    IN  IF o.err # NilErr
        THEN IF o.err = SqlErrNoRows
             THEN [user |-> NoUser, err |-> SqlErrNoRows]
             ELSE [user |-> NoUser, err |-> o.err]
        ELSE [user |-> sqlcUserToModelUser(o.row), err |-> NilErr]

\* UserRepository.UpdatePassword
UserRepository_UpdatePassword(tbl, userID, hashedPassword, now) ==
    SqlUpdatePassword(tbl, [ID |-> userID, Password |-> hashedPassword,
                            UpdatedAt |-> now])

----------------------------------------------------------------------------
(* The hand-written UserRepository over sqlx (docs/architecture.md): the   *)
(* same statements through database/sql, whose Row.Scan reports            *)
(* sql.ErrNoRows and whose Exec reports the rows affected.                 *)

\* fmt.Errorf(message) and fmt.Errorf(message + ": %w", cause)
Errorf(message, cause) ==
    [kind |-> "*fmt.wrapError", Code |-> cause.Code, ConstraintName |-> "",
     Message |-> message]

UserNotFound == Errorf("user not found", NilErr)

\* result.RowsAffected() of a statement WHERE id = $1
RowsAffected(tbl, id) == IF id \in Ids(tbl) THEN 1 ELSE 0

\* sqlx UserRepository.CreateUser: the outcomes [users, user, err]
Sqlx_CreateUser(tbl, nextval, user, now) ==
    {IF o.err # NilErr
     THEN [users |-> o.users,
           user |-> [user EXCEPT !.CreatedAt = now, !.UpdatedAt = now],
           err |-> Errorf("failed to create user", o.err)]
     ELSE [users |-> o.users,
           user |-> [user EXCEPT !.ID = o.row.id, !.CreatedAt = now, !.UpdatedAt = now],
           err |-> NilErr] :
     o \in SqlCreateUser(tbl, nextval,
              [Username |-> user.Username, Email |-> user.Email,
               Password |-> user.Password, CreatedAt |-> now, UpdatedAt |-> now])}

\* sqlx UserRepository.GetUserByID
Sqlx_GetUserByID(tbl, id) ==
    IF id \in Ids(tbl)
    THEN [user |-> sqlcUserToModelUser(tbl[id]), err |-> NilErr]
    ELSE [user |-> NoUser, err |-> UserNotFound]

\* sqlx UserRepository.GetUserByEmail
Sqlx_GetUserByEmail(tbl, email) ==
    IF \E i \in Ids(tbl) : tbl[i].email = email
    THEN [user |-> sqlcUserToModelUser(tbl[CHOOSE i \in Ids(tbl) : tbl[i].email = email]),
          err |-> NilErr]
    ELSE [user |-> NoUser, err |-> UserNotFound]

\* sqlx UserRepository.UpdateUser: the outcomes [users, user, err]
Sqlx_UpdateUser(tbl, user, now) ==
    {IF o.err # NilErr
     THEN [users |-> o.users, user |-> [user EXCEPT !.UpdatedAt = now],
           err |-> Errorf("failed to update user", o.err)]
     ELSE [users |-> o.users, user |-> [user EXCEPT !.UpdatedAt = now],
           err |-> IF RowsAffected(tbl, user.ID) = 0 THEN UserNotFound ELSE NilErr] :
     o \in SqlUpdateUser(tbl,
              [ID |-> user.ID, Username |-> user.Username, Email |-> user.Email,
               UpdatedAt |-> now])}

\* sqlx UserRepository.UpdatePassword
Sqlx_UpdatePassword(tbl, userID, hashedPassword, now) ==
    [users |-> SqlUpdatePassword(tbl, [ID |-> userID, Password |-> hashedPassword,
                                       UpdatedAt |-> now]).users,
     err |-> IF RowsAffected(tbl, userID) = 0 THEN UserNotFound ELSE NilErr]

\* sqlx UserRepository.DeleteUser
Sqlx_DeleteUser(tbl, id) ==
    [users |-> SqlDeleteUser(tbl, id).users,
     err |-> IF RowsAffected(tbl, id) = 0 THEN UserNotFound ELSE NilErr]

\* sqlx UserRepository.UserExists
Sqlx_UserExists(tbl, email) ==
    [exists |-> SqlUserExists(tbl, email), err |-> NilErr]

\* sqlx UserRepository.CountUsers
Sqlx_CountUsers(tbl) == SqlCountUsers(tbl)

\* what a call came to, for a caller of either implementation: success, no
\* such row (either driver's no-rows error, or "user not found"), or failure
Outcome(err) ==
    IF err = NilErr THEN "success"
    ELSE IF err \in {SqlErrNoRows, PgxErrNoRows, UserNotFound} THEN "not-found"
    ELSE "failure"

----------------------------------------------------------------------------
(* Requests and responses *)

NoReq ==
    [kind |-> "none", id |-> <<>>, username |-> "", email |-> "",
     limit |-> <<>>, offset |-> <<>>]

\* model.UserResponse
NoUserResponse ==
    [ID |-> 0, Username |-> "", Email |-> "", CreatedAt |-> ZeroTime,
     UpdatedAt |-> ZeroTime]

toUserResponse(user) ==
    [ID |-> user.ID, Username |-> user.Username, Email |-> user.Email,
     CreatedAt |-> user.CreatedAt, UpdatedAt |-> user.UpdatedAt]

\* what c.JSON wrote: the status and the fields of the body (0: nothing yet)
NoResp ==
    [status |-> 0, error |-> "", user |-> NoUserResponse, users |-> <<>>,
     limit |-> 0, offset |-> 0, total |-> 0]

JSONError(status, error) == [NoResp EXCEPT !.status = status, !.error = error]

JSONUser(status, user) ==
    [NoResp EXCEPT !.status = status, !.user = toUserResponse(user)]

StatusOK == 200
StatusCreated == 201
StatusBadRequest == 400
StatusNotFound == 404
StatusConflict == 409
StatusInternalServerError == 500

EmailExistsMsg == "User with this email already exists"
UsernameExistsMsg == "User with this username already exists"

\* the response of UserHandler.CreateUser / UpdateUser to a failed write
WriteFailure(err, fallback) ==
    IF err.kind = "*pgconn.PgError" /\ err.Code = UniqueViolation
    THEN IF err.ConstraintName \in {"users_email_unique", "users_email_key"}
         THEN JSONError(StatusConflict, EmailExistsMsg)
         ELSE IF err.ConstraintName \in {"users_username_unique", "users_username_key"}
         THEN JSONError(StatusConflict, UsernameExistsMsg)
         ELSE JSONError(StatusInternalServerError, fallback)
    ELSE JSONError(StatusInternalServerError, fallback)

----------------------------------------------------------------------------
(* The request pipeline: middleware.RequestID, gin.Logger, gin.Recovery,   *)
(* middleware.ErrorHandler and middleware.CORS, installed in that order by *)
(* Server.setupRouter, and the routing table of Server.setupRoutes.        *)
(* Header values and identifiers are sequences of one-character strings;   *)
(* a path is the sequence of its segments, so "/ping/" is <<"ping", "">>.  *)

HexDigits ==
    <<"0", "1", "2", "3", "4", "5", "6", "7", "8", "9", "a", "b", "c", "d", "e", "f">>

\* hex.EncodeToString
RECURSIVE EncodeToString(_)
EncodeToString(b) ==
    IF b = <<>> THEN <<>>
    ELSE <<HexDigits[(Head(b) \div 16) + 1], HexDigits[(Head(b) % 16) + 1]>>
         \o EncodeToString(Tail(b))

\* the fallback alphabet of randomString
charset ==
    <<"a", "b", "c", "d", "e", "f", "g", "h", "i", "j", "k", "l", "m",
      "n", "o", "p", "q", "r", "s", "t", "u", "v", "w", "x", "y", "z",
      "A", "B", "C", "D", "E", "F", "G", "H", "I", "J", "K", "L", "M",
      "N", "O", "P", "Q", "R", "S", "T", "U", "V", "W", "X", "Y", "Z",
      "0", "1", "2", "3", "4", "5", "6", "7", "8", "9">>

\* what crypto/rand.Read may do to a buffer of eight bytes: fail, or fill it
RandomReads ==
    {[err |-> TRUE,  b |-> <<0, 0, 0, 0, 0, 0, 0, 0>>],
     [err |-> FALSE, b |-> <<0, 0, 0, 0, 0, 0, 0, 0>>],
     [err |-> FALSE, b |-> <<222, 173, 190, 239, 1, 35, 69, 103>>]}

\* randomString(length), rand.Read having done `read` to the buffer
randomString(length, read) ==
    IF read.err
    THEN [i \in 1..length |-> charset[((i - 1) % Len(charset)) + 1]]
    ELSE SubSeq(EncodeToString(read.b), 1, length)

generateRequestID(read) == <<"r", "e", "q", "-">> \o randomString(8, read)

\* X-Request-ID request headers: absent or empty, three characters, nine
ClientIDs ==
    {<<>>, <<"a", "b", "c">>, <<"t", "r", "a", "c", "e", "-", "0", "0", "1">>}

StatusNoContent == 204
StatusMovedPermanently == 301
StatusTemporaryRedirect == 307
StatusServiceUnavailable == 503

\* a gin.Context: the request, c.Keys["RequestID"], the response's
\* X-Request-ID header, status and body, c.Errors, whether the chain was
\* aborted, the stages entered so far and the storage calls made
NewContext(method, path, xRequestID) ==
    [Method |-> method, Path |-> path, XRequestID |-> xRequestID,
     RequestID |-> <<>>, Header |-> <<>>, status |-> 0, body |-> "",
     Errors |-> 0, aborted |-> FALSE, trace |-> <<>>, handler |-> "",
     storage |-> 0]

Enter(c, stage) == [c EXCEPT !.trace = Append(@, stage)]

\* c.JSON / c.AbortWithStatus write the status once
Write(c, status, body) ==
    IF c.status = 0 THEN [c EXCEPT !.status = status, !.body = body] ELSE c

\* middleware.RequestID, up to c.Next()
RequestID(c, read) ==
    LET requestID == IF c.XRequestID = <<>> THEN generateRequestID(read)
                     ELSE c.XRequestID
    IN  [Enter(c, "RequestID") EXCEPT !.RequestID = requestID, !.Header = requestID]

\* middleware.CORS without the preflight short-circuit
CORS_passesPreflight(c) == Enter(c, "CORS")

\* middleware.CORS, up to c.Next()
CORS(c) ==
    IF c.Method = "OPTIONS"
    THEN [Write(Enter(c, "CORS"), StatusNoContent, "") EXCEPT !.aborted = TRUE]
    ELSE Enter(c, "CORS")

\* middleware.ErrorHandler, after c.Next()
ErrorHandler_after(c) ==
    IF c.Errors > 0
    THEN [c EXCEPT !.status = StatusInternalServerError,
                   !.body = "Internal server error"]
    ELSE c

\* the router's middleware with the cross-origin stage first
Middleware_corsFirst ==
    <<"CORS", "RequestID", "Logger", "Recovery", "ErrorHandler">>

\* the s.router.Use calls of Server.setupRouter, in order
Middleware == <<"RequestID", "Logger", "Recovery", "ErrorHandler", "CORS">>

\* one stage of the chain, up to its c.Next(); gin.Logger and gin.Recovery
\* and middleware.ErrorHandler do nothing to the context before it
Before(stage, c, read) ==
    CASE stage = "RequestID" -> RequestID(c, read)
      [] stage = "CORS" -> CORS(c)
      [] OTHER -> Enter(c, stage)

\* c.Next() through the middleware: each stage in order until one aborts
RECURSIVE RunChain(_, _, _)
RunChain(chain, c, read) ==
    IF chain = <<>> \/ c.aborted THEN c
    ELSE RunChain(Tail(chain), Before(Head(chain), c, read), read)

\* the returns of the c.Next() calls, innermost first: only
\* middleware.ErrorHandler acts on the way back
Unwind(c) ==
    IF \E i \in 1..Len(c.trace) : c.trace[i] = "ErrorHandler"
    THEN ErrorHandler_after(c) ELSE c

\* Server.setupRoutes
Routes ==
    {[method |-> "GET",    path |-> <<"ping">>,   handler |-> "Ping"],
     [method |-> "GET",    path |-> <<"health">>, handler |-> "HealthCheck"],
     [method |-> "GET",    path |-> <<"ready">>,  handler |-> "Readiness"],
     [method |-> "GET",    path |-> <<"live">>,   handler |-> "Liveness"],
     [method |-> "POST",   path |-> <<"api", "v1", "users">>, handler |-> "CreateUser"],
     [method |-> "GET",    path |-> <<"api", "v1", "users">>, handler |-> "GetAllUsers"],
     [method |-> "GET",    path |-> <<"api", "v1", "users", "paginate">>,
      handler |-> "GetUsersWithPagination"],
     [method |-> "GET",    path |-> <<"api", "v1", "users", ":id">>, handler |-> "GetUserByID"],
     [method |-> "PUT",    path |-> <<"api", "v1", "users", ":id">>, handler |-> "UpdateUser"],
     [method |-> "DELETE", path |-> <<"api", "v1", "users", ":id">>, handler |-> "DeleteUser"]}

\* a registered path matches a request path: static segments are equal and
\* a parameter takes one non-empty segment
Matches(pattern, path, static) ==
    /\ Len(pattern) = Len(path)
    /\ \A i \in 1..Len(path) :
          \/ pattern[i] = path[i] /\ pattern[i] # ":id"
          \/ ~static /\ pattern[i] = ":id" /\ path[i] # ""

\* the routes of a method's tree that serve a path, static ones first
Found(method, path) ==
    LET exact == {r \in Routes : r.method = method /\ Matches(r.path, path, TRUE)}
        param == {r \in Routes : r.method = method /\ Matches(r.path, path, FALSE)}
    IN  IF exact # {} THEN exact ELSE param

\* the tree's trailing-slash recommendation: the path with its final slash
\* removed, or with one added, is registered for the method
TrailingSlash(method, path) ==
    /\ path # <<>>
    /\ \/ path[Len(path)] = "" /\ Found(method, SubSeq(path, 1, Len(path) - 1)) # {}
       \/ path[Len(path)] # "" /\ Found(method, Append(path, "")) # {}

\* what the engine does with a request: run the chain and a handler, answer
\* a redirect itself, or run the chain alone and then answer 404
Dispatch(method, path) ==
    IF Found(method, path) # {}
    THEN [kind |-> "route", handler |-> (CHOOSE r \in Found(method, path) : TRUE).handler]
    ELSE IF method # "CONNECT" /\ TrailingSlash(method, path)
    THEN [kind |-> "redirect", handler |-> ""]
    ELSE [kind |-> "noroute", handler |-> ""]

\* the handlers that touch storage
UsesStorage(handler) == handler \in {"HealthCheck", "Readiness", "GetAllUsers"}

\* Engine.ServeHTTP up to the handler's storage call, or to the end of the
\* request when there is none
Serve(chain, method, path, xRequestID, read) ==
    LET d  == Dispatch(method, path)
        c0 == NewContext(method, path, xRequestID)
        c1 == RunChain(chain, c0, read)
    IN  CASE d.kind = "redirect" ->
                Write(c0, IF method = "GET" THEN StatusMovedPermanently
                          ELSE StatusTemporaryRedirect, "")
          [] d.kind = "noroute" ->
                Write(Unwind(c1), StatusNotFound, "404 page not found")
          [] c1.aborted -> Unwind(c1)
          [] d.handler \in {"Ping", "Liveness"} ->
                Unwind(Write([Enter(c1, "handler") EXCEPT !.handler = d.handler],
                             StatusOK, IF d.handler = "Ping" THEN "pong" ELSE "alive"))
          [] OTHER -> [Enter(c1, "handler") EXCEPT !.handler = d.handler]

\* the rest of a handler once its storage call returned err ("nil" or not):
\* HealthHandler.HealthCheck, HealthHandler.Readiness, UserHandler.GetAllUsers
Respond(c, err) ==
    LET failed == IF c.handler = "GetAllUsers" THEN StatusInternalServerError
                  ELSE StatusServiceUnavailable
        said   == CASE c.handler = "HealthCheck" ->
                        IF err = "nil" THEN "healthy" ELSE "unhealthy"
                    [] c.handler = "Readiness" ->
                        IF err = "nil" THEN "ready" ELSE "database not ready"
                    [] OTHER ->
                        IF err = "nil" THEN "users" ELSE "Failed to retrieve users"
    IN  Unwind(Write(c, IF err = "nil" THEN StatusOK ELSE failed, said))

----------------------------------------------------------------------------
(* The connection pool of db.NewDatabase and the lifecycle of main, App    *)
(* and Server.                                                             *)

\* the MaxConns that NewDatabase assigns to the copy pool.Config() returns
MaxConns == 25

\* pgxpool's MaxConns when the connection string names none: four, or the
\* number of CPUs if that is more
defaultMaxConns == 4

\* runtime.NumCPU() on the hosts considered
NumCPUs == {1, 8, 32}

\* the storage backend answers, refuses connections, or accepts and stays silent
Backends == {"up", "unreachable", "unresponsive"}

\* Server.database and its pool before Server.Initialize
NoPool == [made |-> FALSE, closed |-> FALSE, MaxConns |-> 0, leased |-> 0]

\* pgxpool.New: pool.Config() hands out a copy, so the assignments of
\* NewDatabase to it leave the pool's own limit at the parsed default
NewPool(numCPU) ==
    [made |-> TRUE, closed |-> FALSE, MaxConns |-> Max(defaultMaxConns, numCPU),
     leased |-> 0]

\* Database.Close that reports a pool closed before
Database_Close_once(p) ==
    [pool |-> IF p.made THEN [p EXCEPT !.closed = TRUE] ELSE p,
     err |-> IF p.made /\ p.closed THEN "closed pool" ELSE "nil"]

\* Server.Close and Database.Close, up to the point where pgxpool's Close
\* waits for the leased connections: the pool stops leasing, once
Database_Close(p) ==
    [pool |-> IF p.made THEN [p EXCEPT !.closed = TRUE] ELSE p, err |-> "nil"]

\* log.Fatalf that logs and returns to main
Fatalf_returns(a) == [a EXCEPT !.state = "Initialized"]

\* log.Fatalf in main: the process exits with status 1
Fatalf(a) == [a EXCEPT !.state = "Exited", !.exit = 1]

\* what a caller of Server.Close finds: no database, an open pool, a closed one
PoolState(p) == IF ~p.made THEN "nil" ELSE IF p.closed THEN "closed" ELSE "open"

\* the goroutine of App.Run that hands the error of Server.Start to main
LogStartError_returns(a) == [a EXCEPT !.state = "Stopped", !.err = "listen"]

\* the goroutine of App.Run on an error of Server.Start: it logs the error
LogStartError(a) == a

\* the process is running
Alive(a) == a.state \notin {"Exited", "Killed"}

----------------------------------------------------------------------------
(* State *)

VARIABLES
    users,      \* the users table: id -> row
    seq,        \* next value of the id sequence
    pc,         \* per thread: "idle", or the storage call it is about to make, or "done"
    req,        \* per thread: the request it serves
    page,       \* per thread: the users GetUsersWithPagination fetched
    resp,       \* per thread: the response written
    writeSeen   \* per thread: whether a row was inserted or deleted after its
                \* page fetch: "none", "between" the fetch and the count, or
                \* "after" the count

VARIABLES
    app,        \* main: its lifecycle state, its exit status (-1 while it
                \* runs) and the result of the Server.Close it is in
    listener,   \* the goroutine of App.Run: "none", "starting" in
                \* Server.Start, "listening" or "failed"
    quit,       \* the signals buffered in the channel quit of App.Run
    pool,       \* Server.database and its pool: made, closed, its effective
                \* MaxConns and the connections leased
    backend,    \* the storage backend: one of Backends
    faults,     \* how often the backend changed
    conn,       \* per connection: the request it carries, its gin.Context
                \* and how far it got
    closer,     \* a caller of Server.Close other than App.Run: its calls,
                \* what each found and what each returned
    twin        \* the store behind the hand-written repository, and what
                \* the last call returned from it and from the generated one

crud == <<users, seq, pc, req, page, resp, writeSeen>>
svc == <<app, listener, quit, pool, backend, faults, conn, closer>>
vars == <<users, seq, pc, req, page, resp, writeSeen,
          app, listener, quit, pool, backend, faults, conn, closer, twin>>

\* the connections a client holds open
Conns == {"c1", "c2"}

\* backend changes considered
MaxFaults == 1

\* calls of Server.Close considered
MaxCloses == 2

\* a connection without a request
Idle == [stage |-> "idle", ctx |-> NewContext("", <<>>, <<>>)]

\* nobody called Server.Close yet
NoCalls == [calls |-> 0, pending |-> FALSE, seen |-> <<>>, err |-> "", errs |-> <<>>]

\* the process as it enters main
Boot ==
    /\ app = [state |-> "Uninitialized", exit |-> 0 - 1, err |-> ""]
    /\ listener = "none"
    /\ quit = 0
    /\ pool = NoPool
    /\ backend \in Backends
    /\ faults = 0
    /\ conn = [c \in Conns |-> Idle]
    /\ closer = NoCalls

\* the process blocked in App.Run with its listener up, on a one-CPU host
Serving ==
    /\ app = [state |-> "Running", exit |-> 0 - 1, err |-> ""]
    /\ listener = "listening"
    /\ quit = 0
    /\ pool = NewPool(1)
    /\ backend = "up"
    /\ faults = 0
    /\ conn = [c \in Conns |-> Idle]
    /\ closer = NoCalls

\* path parameters :id
IdParams == {Itoa(i) : i \in 0..MaxId}

\* a decimal integer above the int range
BigText == MinInt64Text

\* query parameters limit and offset (<<>>: absent)
LimitParams ==
    {<<>>, <<"0">>, <<"1">>, <<"2">>, <<"1", "0", "0">>, <<"1", "0", "1">>,
     <<"5", "0", "0">>, <<"-", "1">>, <<"+", "7">>, <<"x">>, <<"-">>,
     MaxInt64Text, BigText, <<"-">> \o MinInt64Text, <<"-">> \o BigText \o <<"0">>}
OffsetParams ==
    {<<>>, <<"0">>, <<"1">>, <<"-", "5">>, <<"1", "0", "0", "0", "0", "0", "0">>,
     <<"1", "0", "0", "0", "0", "0", "1">>, <<"1", "x">>, MaxInt64Text, BigText}

\* the windows the paging scenarios ask for: limit 1 or 10, offset 0 or 1
PageLimits == {<<>>, <<"0">>}
PageOffsets == {<<>>, <<"1">>}

\* the hand-written repository over an empty store of its own, no call made
NoTwin ==
    [users |-> [i \in {} |-> NoRow], seq |-> 1, call |-> "", ref |-> NilErr,
     out |-> NilErr]

\* an empty store and no request to the user endpoints
EmptyStore ==
    /\ users = [i \in {} |-> NoRow]
    /\ seq = 1
    /\ pc = [t \in Threads |-> "idle"]
    /\ req = [t \in Threads |-> NoReq]
    /\ page = [t \in Threads |-> <<>>]
    /\ resp = [t \in Threads |-> NoResp]
    /\ writeSeen = [t \in Threads |-> "none"]
    /\ twin = NoTwin

Init == EmptyStore /\ Serving

\* thread t (or a request outside Threads) ran a statement; if it inserted
\* or deleted a row, the pages the other threads hold have seen a write
NoteWrite(t, changed) ==
    [u \in Threads |->
        IF u # t /\ changed /\ req[u].kind = "GetUsersWithPagination"
        THEN IF pc[u] = "count" THEN "between"
             ELSE IF pc[u] = "done" /\ writeSeen[u] = "none" THEN "after"
             ELSE writeSeen[u]
        ELSE writeSeen[u]]

\* the handler returns with the response r written
Reply(t, r) ==
    /\ pc' = [pc EXCEPT ![t] = "done"]
    /\ resp' = [resp EXCEPT ![t] = r]

\* insert attempts still to come from requests past their pre-check
Creating == Cardinality({u \in Threads : pc[u] = "create"})

----------------------------------------------------------------------------
(* UserHandler *)

\* POST /api/v1/users, up to the UserExists pre-check
UserHandler_CreateUser(t) ==
    /\ pc[t] = "idle"
    /\ \E username \in Usernames, email \in Emails :
        LET e == UserRepository_UserExists(users, email)
        IN  /\ req' = [req EXCEPT ![t] = [NoReq EXCEPT !.kind = "CreateUser",
                                          !.username = username, !.email = email]]
            /\ IF e.err # NilErr
               THEN Reply(t, JSONError(StatusInternalServerError,
                                       "Failed to check if user exists"))
               ELSE IF e.exists
               THEN Reply(t, JSONError(StatusConflict, EmailExistsMsg))
               ELSE /\ seq + Creating <= MaxId
                    /\ pc' = [pc EXCEPT ![t] = "create"]
                    /\ resp' = resp
    /\ UNCHANGED <<users, seq, page, writeSeen>>
    /\ UNCHANGED <<svc, twin>>

\* POST /api/v1/users, from the password hash to the response
UserHandler_CreateUser_create(t) ==
    /\ pc[t] = "create"
    /\ LET user == [NoUser EXCEPT !.Username = req[t].username,
                                  !.Email = req[t].email,
                                  !.Password = HashPassword(Password)]
       IN  \E now \in Times : \E o \in UserRepository_CreateUser(users, seq, user, now) :
            /\ users' = o.users
            /\ seq' = seq + 1
            /\ writeSeen' = NoteWrite(t, o.users # users)
            /\ IF o.err # NilErr
               THEN Reply(t, WriteFailure(o.err, "Failed to create user"))
               ELSE Reply(t, JSONUser(StatusCreated, o.user))
    /\ UNCHANGED <<req, page>>
    /\ UNCHANGED <<svc, twin>>

\* GET /api/v1/users/:id
UserHandler_GetUserByID(t) ==
    /\ pc[t] = "idle"
    /\ \E id \in IdParams :
        LET p == parseUserID(id)
            g == UserRepository_GetUserByID(users, p.id)
        IN  /\ req' = [req EXCEPT ![t] = [NoReq EXCEPT !.kind = "GetUserByID", !.id = id]]
            /\ IF p.err # "nil" THEN Reply(t, JSONError(StatusBadRequest, p.err))
               ELSE IF g.err # NilErr
               THEN IF g.err = SqlErrNoRows
                    THEN Reply(t, JSONError(StatusNotFound, "User not found"))
                    ELSE Reply(t, JSONError(StatusInternalServerError,
                                            "Failed to retrieve user"))
               ELSE Reply(t, JSONUser(StatusOK, g.user))
    /\ UNCHANGED <<users, seq, page, writeSeen>>
    /\ UNCHANGED <<svc, twin>>

\* PUT /api/v1/users/:id, up to the GetUserByID pre-check and the binding
UserHandler_UpdateUser(t) ==
    /\ pc[t] = "idle"
    /\ \E id \in IdParams, username \in Usernames, email \in Emails :
        LET p == parseUserID(id)
            g == UserRepository_GetUserByID(users, p.id)
        IN  /\ req' = [req EXCEPT ![t] = [NoReq EXCEPT !.kind = "UpdateUser", !.id = id,
                                          !.username = username, !.email = email]]
            /\ IF p.err # "nil" THEN Reply(t, JSONError(StatusBadRequest, p.err))
               ELSE IF g.err # NilErr
               THEN IF g.err = SqlErrNoRows
                    THEN Reply(t, JSONError(StatusNotFound, "User not found"))
                    ELSE Reply(t, JSONError(StatusInternalServerError,
                                            "Failed to retrieve user"))
               ELSE /\ pc' = [pc EXCEPT ![t] = "update"]
                    /\ resp' = resp
    /\ UNCHANGED <<users, seq, page, writeSeen>>
    /\ UNCHANGED <<svc, twin>>

\* PUT /api/v1/users/:id, the write and the response
UserHandler_UpdateUser_update(t) ==
    /\ pc[t] = "update"
    /\ LET user == [NoUser EXCEPT !.ID = parseUserID(req[t].id).id,
                                  !.Username = req[t].username,
                                  !.Email = req[t].email]
       IN  \E now \in Times : \E o \in UserRepository_UpdateUser(users, user, now) :
            /\ users' = o.users
            /\ IF o.err # NilErr
               THEN Reply(t, WriteFailure(o.err, "Failed to update user"))
               ELSE Reply(t, JSONUser(StatusOK, o.user))
    /\ UNCHANGED <<seq, req, page, writeSeen>>
    /\ UNCHANGED <<svc, twin>>

\* DELETE /api/v1/users/:id
UserHandler_DeleteUser(t) ==
    /\ pc[t] = "idle"
    /\ \E id \in IdParams :
        LET p == parseUserID(id)
            d == UserRepository_DeleteUser(users, p.id)
        IN  /\ req' = [req EXCEPT ![t] = [NoReq EXCEPT !.kind = "DeleteUser", !.id = id]]
            /\ IF p.err # "nil"
               THEN /\ Reply(t, JSONError(StatusBadRequest, p.err))
                    /\ UNCHANGED <<users, writeSeen>>
               ELSE /\ users' = d.users
                    /\ writeSeen' = NoteWrite(t, d.users # users)
                    /\ IF d.err # NilErr
                       THEN IF UserRepository_GetUserByID(d.users, p.id).err = SqlErrNoRows
                            THEN Reply(t, JSONError(StatusNotFound, "User not found"))
                            ELSE Reply(t, JSONError(StatusInternalServerError,
                                                    "Failed to delete user"))
                       ELSE Reply(t, [NoResp EXCEPT !.status = StatusOK])
    /\ UNCHANGED <<seq, page>>
    /\ UNCHANGED <<svc, twin>>

\* the window of a paginate request: limit and offset, each with its error
Window(r) ==
    [limit |-> parseIntQuery(r.limit, DefaultLimit, MinLimit, MaxLimit),
     offset |-> parseIntQuery(r.offset, DefaultOffset, MinOffset, MaxOffset)]

\* GET /api/v1/users/paginate, up to the page fetch
UserHandler_GetUsersWithPagination(t, limits, offsets) ==
    /\ pc[t] = "idle"
    /\ \E limit \in limits, offset \in offsets :
        LET r == [NoReq EXCEPT !.kind = "GetUsersWithPagination",
                               !.limit = limit, !.offset = offset]
            w == Window(r)
        IN  /\ req' = [req EXCEPT ![t] = r]
            /\ IF w.limit.err # "nil"
               THEN /\ Reply(t, JSONError(StatusBadRequest, "Invalid limit parameter"))
                    /\ page' = page
               ELSE IF w.offset.err # "nil"
               THEN /\ Reply(t, JSONError(StatusBadRequest, "Invalid offset parameter"))
                    /\ page' = page
               ELSE \E us \in UserRepository_GetUsersWithPagination(
                                  users, w.limit.n, w.offset.n) :
                        /\ page' = [page EXCEPT ![t] = us]
                        /\ pc' = [pc EXCEPT ![t] = "count"]
                        /\ resp' = resp
    /\ UNCHANGED <<users, seq, writeSeen>>
    /\ UNCHANGED <<svc, twin>>

\* GET /api/v1/users/paginate, the count and the response
UserHandler_GetUsersWithPagination_count(t) ==
    /\ pc[t] = "count"
    /\ LET w == Window(req[t])
           total == UserRepository_CountUsers(users)
       IN  Reply(t, [NoResp EXCEPT
                        !.status = StatusOK,
                        !.users = [i \in 1..Len(page[t]) |-> toUserResponse(page[t][i])],
                        !.limit = w.limit.n, !.offset = w.offset.n, !.total = total])
    /\ page' = [page EXCEPT ![t] = <<>>]
    /\ UNCHANGED <<users, seq, req, writeSeen>>
    /\ UNCHANGED <<svc, twin>>

\* the response is on the wire and the request's thread ends
Finish(t) ==
    /\ pc[t] = "done"
    /\ pc' = [pc EXCEPT ![t] = "idle"]
    /\ req' = [req EXCEPT ![t] = NoReq]
    /\ resp' = [resp EXCEPT ![t] = NoResp]
    /\ writeSeen' = [writeSeen EXCEPT ![t] = "none"]
    /\ UNCHANGED <<users, seq, page>>
    /\ UNCHANGED <<svc, twin>>

\* two concurrent requests to the create, read, update and delete endpoints
Next ==
    \/ \E t \in Threads : UserHandler_CreateUser(t)
    \/ \E t \in Threads : UserHandler_CreateUser_create(t)
    \/ \E t \in Threads : UserHandler_GetUserByID(t)
    \/ \E t \in Threads : UserHandler_UpdateUser(t)
    \/ \E t \in Threads : UserHandler_UpdateUser_update(t)
    \/ \E t \in Threads : UserHandler_DeleteUser(t)
    \/ \E t \in Threads : Finish(t)

Spec == Init /\ [][Next]_vars

----------------------------------------------------------------------------
(* The statements of requests served by threads other than Threads: each   *)
(* is one repository call, run at any moment between two steps of a        *)
(* handler, whose response nobody here reads.                              *)

\* another request's UserRepository.CreateUser
Concurrent_CreateUser ==
    /\ seq + Creating <= MaxId
    /\ \E username \in Usernames, email \in Emails, now \in Times :
        LET user == [NoUser EXCEPT !.Username = username, !.Email = email,
                                   !.Password = HashPassword(Password)]
        IN  \E o \in UserRepository_CreateUser(users, seq, user, now) :
                /\ users' = o.users
                /\ seq' = seq + 1
                /\ writeSeen' = NoteWrite("other", o.users # users)
    /\ UNCHANGED <<pc, req, page, resp>>
    /\ UNCHANGED <<svc, twin>>

\* another request's UserRepository.UpdateUser
Concurrent_UpdateUser ==
    /\ \E id \in 1..MaxId, username \in Usernames, email \in Emails, now \in Times :
        LET user == [NoUser EXCEPT !.ID = id, !.Username = username, !.Email = email]
        IN  \E o \in UserRepository_UpdateUser(users, user, now) :
                users' = o.users
    /\ UNCHANGED <<seq, pc, req, page, resp, writeSeen>>
    /\ UNCHANGED <<svc, twin>>

\* another request's UserRepository.DeleteUser
Concurrent_DeleteUser ==
    /\ \E id \in Ids(users) :
        /\ users' = UserRepository_DeleteUser(users, id).users
        /\ writeSeen' = NoteWrite("other", TRUE)
    /\ UNCHANGED <<seq, pc, req, page, resp>>
    /\ UNCHANGED <<svc, twin>>

\* the thread whose responses are read
Solo == {"t1"}

\* one request at a time to the create, read, update and delete endpoints,
\* among the statements of any number of other requests
NextWrite ==
    \/ \E t \in Solo : UserHandler_CreateUser(t)
    \/ \E t \in Solo : UserHandler_CreateUser_create(t)
    \/ \E t \in Solo : UserHandler_GetUserByID(t)
    \/ \E t \in Solo : UserHandler_UpdateUser(t)
    \/ \E t \in Solo : UserHandler_UpdateUser_update(t)
    \/ \E t \in Solo : UserHandler_DeleteUser(t)
    \/ \E t \in Solo : Finish(t)
    \/ Concurrent_CreateUser
    \/ Concurrent_UpdateUser
    \/ Concurrent_DeleteUser

SpecWrite == Init /\ [][NextWrite]_vars

\* two concurrent requests to the create, delete and paginate endpoints
NextPage ==
    \/ \E t \in Threads : UserHandler_CreateUser(t)
    \/ \E t \in Threads : UserHandler_CreateUser_create(t)
    \/ \E t \in Threads : UserHandler_DeleteUser(t)
    \/ \E t \in Threads : UserHandler_GetUsersWithPagination(t, PageLimits, PageOffsets)
    \/ \E t \in Threads : UserHandler_GetUsersWithPagination_count(t)
    \/ \E t \in Threads : Finish(t)

SpecPage == Init /\ [][NextPage]_vars

\* paginate requests over every limit and offset text
NextWindow ==
    \/ \E t \in Threads : UserHandler_GetUsersWithPagination(t, LimitParams, OffsetParams)
    \/ \E t \in Threads : UserHandler_GetUsersWithPagination_count(t)
    \/ \E t \in Threads : Finish(t)

SpecWindow == Init /\ [][NextWindow]_vars

----------------------------------------------------------------------------
(* main, App.Initialize, App.Run and the listener                          *)

\* main up to the return of App.Initialize: Server.Initialize calls
\* db.NewDatabase, whose pool.Ping(context.Background()) waits for the
\* backend's answer; on an error main calls log.Fatalf
App_Initialize(cpus) ==
    /\ app.state = "Uninitialized"
    /\ backend # "unresponsive"
    /\ \E numCPU \in cpus :
          IF backend = "up"
          THEN /\ pool' = NewPool(numCPU)
               /\ app' = [app EXCEPT !.state = "Initialized"]
          ELSE /\ pool' = pool
               /\ app' = Fatalf(app)
    /\ UNCHANGED <<listener, quit, backend, faults, conn, closer>>
    /\ UNCHANGED <<crud, twin>>

\* App.Run up to <-quit: the goroutine of Server.Start is started and the
\* two signals are routed to the channel
App_Run ==
    /\ app.state = "Initialized"
    /\ app' = [app EXCEPT !.state = "Running"]
    /\ listener' = "starting"
    /\ UNCHANGED <<quit, pool, backend, faults, conn, closer>>
    /\ UNCHANGED <<crud, twin>>

\* Server.Start in its goroutine: router.Run binds the address and serves,
\* or returns an error that the goroutine logs
Server_Start ==
    /\ Alive(app)
    /\ listener = "starting"
    /\ \/ listener' = "listening" /\ app' = app
       \/ listener' = "failed" /\ app' = LogStartError(app)
    /\ UNCHANGED <<quit, pool, backend, faults, conn, closer>>
    /\ UNCHANGED <<crud, twin>>

\* SIGINT or SIGTERM is delivered: before signal.Notify it ends the process,
\* after it the signal goes to the channel unless that is full
Signal ==
    /\ Alive(app)
    /\ IF app.state \in {"Uninitialized", "Initialized"}
       THEN /\ app' = [app EXCEPT !.state = "Killed"]
            /\ quit' = quit
       ELSE /\ app' = app
            /\ quit' = Min(quit + 1, 1)
    /\ UNCHANGED <<listener, pool, backend, faults, conn, closer>>
    /\ UNCHANGED <<crud, twin>>

\* <-quit in App.Run
App_Run_quit ==
    /\ app.state = "Running"
    /\ quit > 0
    /\ quit' = quit - 1
    /\ app' = [app EXCEPT !.state = "ShuttingDown"]
    /\ UNCHANGED <<listener, pool, backend, faults, conn, closer>>
    /\ UNCHANGED <<crud, twin>>

\* App.Run calls Server.Close: the pool stops leasing
Server_Close ==
    /\ app.state = "ShuttingDown"
    /\ app.err = ""
    /\ LET r == Database_Close(pool)
       IN  /\ pool' = r.pool
           /\ app' = [app EXCEPT !.err = r.err]
    /\ UNCHANGED <<listener, quit, backend, faults, conn, closer>>
    /\ UNCHANGED <<crud, twin>>

\* pgxpool's Close has waited until every leased connection came back;
\* Server.Close returns and App.Run returns its result to main, which
\* calls log.Fatalf on an error
Server_Close_return ==
    /\ app.state = "ShuttingDown"
    /\ app.err # ""
    /\ pool.leased = 0
    /\ app' = IF app.err = "nil" THEN [app EXCEPT !.state = "Stopped"]
              ELSE Fatalf(app)
    /\ UNCHANGED <<listener, quit, pool, backend, faults, conn, closer>>
    /\ UNCHANGED <<crud, twin>>

\* main returns and the process ends with status 0
main_return ==
    /\ app.state = "Stopped"
    /\ app' = [app EXCEPT !.state = "Exited", !.exit = 0]
    /\ UNCHANGED <<listener, quit, pool, backend, faults, conn, closer>>
    /\ UNCHANGED <<crud, twin>>

\* the backend goes down, hangs or comes back
Backend_Change ==
    /\ faults < MaxFaults
    /\ \E b \in Backends \ {backend} : backend' = b
    /\ faults' = faults + 1
    /\ UNCHANGED <<app, listener, quit, pool, conn, closer>>
    /\ UNCHANGED <<crud, twin>>

----------------------------------------------------------------------------
(* Requests to the listener                                                *)

\* the listener accepts a request on connection c and the engine serves it
\* up to its handler's storage call
Engine_ServeHTTP(c, methods, paths, ids, reads) ==
    /\ Alive(app)
    /\ listener = "listening"
    /\ conn[c].stage = "idle"
    /\ \E method \in methods, path \in paths, id \in ids, read \in reads :
          LET ctx == Serve(Middleware, method, path, id, read)
          IN  /\ ctx.status # 0 \/ UsesStorage(ctx.handler)
              /\ conn' = [conn EXCEPT ![c] =
                             [stage |-> IF ctx.status = 0 THEN "acquire" ELSE "done",
                              ctx |-> ctx]]
    /\ UNCHANGED <<app, listener, quit, pool, backend, faults, closer>>
    /\ UNCHANGED <<crud, twin>>

\* the handler's pool.Ping or query asks the pool for a connection: a closed
\* pool refuses, a saturated one makes the caller wait
Handler_Acquire(c) ==
    /\ Alive(app)
    /\ conn[c].stage = "acquire"
    /\ LET ctx == [conn[c].ctx EXCEPT !.storage = @ + 1]
       IN  IF ~pool.made \/ pool.closed
           THEN /\ conn' = [conn EXCEPT ![c].stage = "done",
                                        ![c].ctx = Respond(ctx, "closed pool")]
                /\ pool' = pool
           ELSE /\ pool.leased < pool.MaxConns
                /\ conn' = [conn EXCEPT ![c].stage = "query", ![c].ctx = ctx]
                /\ pool' = [pool EXCEPT !.leased = @ + 1]
    /\ UNCHANGED <<app, listener, quit, backend, faults, closer>>
    /\ UNCHANGED <<crud, twin>>

\* the round trip ends, with an error if the backend is unreachable; the
\* connection goes back to the pool and the handler answers. The context is
\* context.Background(): a silent backend is waited for.
Handler_Return(c) ==
    /\ Alive(app)
    /\ conn[c].stage = "query"
    /\ backend # "unresponsive"
    /\ pool' = [pool EXCEPT !.leased = @ - 1]
    /\ conn' = [conn EXCEPT ![c].stage = "done",
                            ![c].ctx = Respond(conn[c].ctx,
                                               IF backend = "up" THEN "nil"
                                               ELSE "connection refused")]
    /\ UNCHANGED <<app, listener, quit, backend, faults, closer>>
    /\ UNCHANGED <<crud, twin>>

\* the response is on the wire; the connection may carry another request
Conn_Finish(c) ==
    /\ Alive(app)
    /\ conn[c].stage = "done"
    /\ conn' = [conn EXCEPT ![c] = Idle]
    /\ UNCHANGED <<app, listener, quit, pool, backend, faults, closer>>
    /\ UNCHANGED <<crud, twin>>

\* the connections leased to the requests on Conns
Held == Cardinality({c \in Conns : conn[c].stage = "query"})

\* a repository operation of one more request thread takes a connection
Repository_Begin ==
    /\ Alive(app)
    /\ pool.made /\ ~pool.closed
    /\ pool.leased < pool.MaxConns
    /\ pool' = [pool EXCEPT !.leased = @ + 1]
    /\ UNCHANGED <<app, listener, quit, backend, faults, conn, closer>>
    /\ UNCHANGED <<crud, twin>>

\* such an operation ends, well or not, and its connection goes back
Repository_End ==
    /\ Alive(app)
    /\ backend # "unresponsive"
    /\ pool.leased > Held
    /\ pool' = [pool EXCEPT !.leased = @ - 1]
    /\ UNCHANGED <<app, listener, quit, backend, faults, conn, closer>>
    /\ UNCHANGED <<crud, twin>>

\* Server.Close is called by a caller other than App.Run
Close_call ==
    /\ Alive(app)
    /\ ~closer.pending
    /\ closer.calls < MaxCloses
    /\ LET r == Database_Close(pool)
       IN  /\ pool' = r.pool
           /\ closer' = [closer EXCEPT !.calls = @ + 1, !.pending = TRUE,
                                       !.seen = Append(@, PoolState(pool)),
                                       !.err = r.err]
    /\ UNCHANGED <<app, listener, quit, backend, faults, conn>>
    /\ UNCHANGED <<crud, twin>>

\* that call returns, once no connection is leased
Close_return ==
    /\ Alive(app)
    /\ closer.pending
    /\ pool.leased = 0
    /\ closer' = [closer EXCEPT !.pending = FALSE, !.err = "",
                                !.errs = Append(@, closer.err)]
    /\ UNCHANGED <<app, listener, quit, pool, backend, faults, conn>>
    /\ UNCHANGED <<crud, twin>>

----------------------------------------------------------------------------
(* Specifications of the service                                           *)

InitBoot == EmptyStore /\ Boot

\* the requests of the pipeline scenarios: probes, the user list, a path
\* with a trailing slash and an unregistered one, plain or preflight
PipelineMethods == {"GET", "OPTIONS"}
PipelinePaths ==
    {<<"ping">>, <<"health">>, <<"ready">>, <<"live">>, <<"api", "v1", "users">>,
     <<"ping", "">>, <<"nothing">>}

\* requests of every kind on two connections, to a service on a one-CPU host
NextPipeline ==
    \/ App_Initialize({1})
    \/ App_Run
    \/ Server_Start
    \/ \E c \in Conns : Engine_ServeHTTP(c, PipelineMethods, PipelinePaths, ClientIDs, RandomReads)
    \/ \E c \in Conns : Handler_Acquire(c)
    \/ \E c \in Conns : Handler_Return(c)
    \/ \E c \in Conns : Conn_Finish(c)

SpecPipeline == InitBoot /\ [][NextPipeline]_vars

\* the probes, sent without X-Request-ID
ProbePaths == {<<"ping">>, <<"health">>, <<"ready">>, <<"live">>}
OneRead == {[err |-> FALSE, b |-> <<0, 0, 0, 0, 0, 0, 0, 0>>]}

\* the whole life of the process, with probes on two connections
NextLife ==
    \/ App_Initialize({1})
    \/ App_Run
    \/ Server_Start
    \/ Signal
    \/ App_Run_quit
    \/ Server_Close
    \/ Server_Close_return
    \/ main_return
    \/ Backend_Change
    \/ \E c \in Conns : Engine_ServeHTTP(c, {"GET"}, ProbePaths, {<<>>}, OneRead)
    \/ \E c \in Conns : Handler_Acquire(c)
    \/ \E c \in Conns : Handler_Return(c)
    \/ \E c \in Conns : Conn_Finish(c)

SpecLife == InitBoot /\ [][NextLife]_vars

\* every step of the process itself is taken if it stays possible; signals,
\* backend changes and the arrival of requests are up to the environment
FairLife ==
    /\ SpecLife
    /\ WF_vars(App_Initialize({1}))
    /\ WF_vars(App_Run)
    /\ WF_vars(Server_Start)
    /\ WF_vars(App_Run_quit)
    /\ WF_vars(Server_Close)
    /\ WF_vars(Server_Close_return)
    /\ WF_vars(main_return)
    /\ \A c \in Conns : WF_vars(Handler_Acquire(c))
    /\ \A c \in Conns : WF_vars(Handler_Return(c))
    /\ \A c \in Conns : WF_vars(Conn_Finish(c))

\* the pool under any number of request threads and callers of Server.Close
NextPool ==
    \/ App_Initialize(NumCPUs)
    \/ Backend_Change
    \/ Repository_Begin
    \/ Repository_End
    \/ Close_call
    \/ Close_return

SpecPool == InitBoot /\ [][NextPool]_vars

----------------------------------------------------------------------------
(* The two repositories side by side: each call goes to the generated      *)
(* repository over `users` and to the hand-written one over twin.users,    *)
(* with the same arguments at the same time.                               *)

Both(call, ref, out, tbl, nextval) ==
    twin' = [users |-> tbl, seq |-> nextval, call |-> call, ref |-> ref, out |-> out]

Both_CreateUser ==
    /\ seq <= MaxId /\ twin.seq <= MaxId
    /\ \E username \in Usernames, email \in Emails, now \in Times :
        LET user == [NoUser EXCEPT !.Username = username, !.Email = email,
                                   !.Password = HashPassword(Password)]
        IN  \E a \in UserRepository_CreateUser(users, seq, user, now),
               b \in Sqlx_CreateUser(twin.users, twin.seq, user, now) :
                /\ users' = a.users
                /\ seq' = seq + 1
                /\ Both("create", a.err, b.err, b.users, twin.seq + 1)
    /\ UNCHANGED <<pc, req, page, resp, writeSeen, svc>>

Both_GetUserByID ==
    /\ \E id \in 1..MaxId :
        Both("getByID", UserRepository_GetUserByID(users, id).err,
             Sqlx_GetUserByID(twin.users, id).err, twin.users, twin.seq)
    /\ UNCHANGED <<users, seq, pc, req, page, resp, writeSeen, svc>>

Both_GetUserByEmail ==
    /\ \E email \in Emails :
        Both("getByEmail", UserRepository_GetUserByEmail(users, email).err,
             Sqlx_GetUserByEmail(twin.users, email).err, twin.users, twin.seq)
    /\ UNCHANGED <<users, seq, pc, req, page, resp, writeSeen, svc>>

Both_UpdateUser ==
    /\ \E id \in 1..MaxId, username \in Usernames, email \in Emails, now \in Times :
        LET user == [NoUser EXCEPT !.ID = id, !.Username = username, !.Email = email]
        IN  \E a \in UserRepository_UpdateUser(users, user, now),
               b \in Sqlx_UpdateUser(twin.users, user, now) :
                /\ users' = a.users
                /\ Both("update", a.err, b.err, b.users, twin.seq)
    /\ UNCHANGED <<seq, pc, req, page, resp, writeSeen, svc>>

Both_UpdatePassword ==
    /\ \E id \in 1..MaxId, now \in Times :
        LET a == UserRepository_UpdatePassword(users, id, HashPassword("other"), now)
            b == Sqlx_UpdatePassword(twin.users, id, HashPassword("other"), now)
        IN  /\ users' = a.users
            /\ Both("updatePassword", a.err, b.err, b.users, twin.seq)
    /\ UNCHANGED <<seq, pc, req, page, resp, writeSeen, svc>>

Both_DeleteUser ==
    /\ \E id \in 1..MaxId :
        LET a == UserRepository_DeleteUser(users, id)
            b == Sqlx_DeleteUser(twin.users, id)
        IN  /\ users' = a.users
            /\ Both("delete", a.err, b.err, b.users, twin.seq)
    /\ UNCHANGED <<seq, pc, req, page, resp, writeSeen, svc>>

Both_UserExists ==
    /\ \E email \in Emails :
        Both("exists", UserRepository_UserExists(users, email).err,
             Sqlx_UserExists(twin.users, email).err, twin.users, twin.seq)
    /\ UNCHANGED <<users, seq, pc, req, page, resp, writeSeen, svc>>

Both_CountUsers ==
    /\ Both("count", NilErr, NilErr, twin.users, twin.seq)
    /\ UNCHANGED <<users, seq, pc, req, page, resp, writeSeen, svc>>

NextTwin ==
    \/ Both_CreateUser
    \/ Both_GetUserByID
    \/ Both_GetUserByEmail
    \/ Both_UpdateUser
    \/ Both_UpdatePassword
    \/ Both_DeleteUser
    \/ Both_UserExists
    \/ Both_CountUsers

SpecTwin == Init /\ [][NextTwin]_vars

----------------------------------------------------------------------------
(* Properties *)

\* the identifier a request's path names (0 when it is not a positive integer)
PathId(r) == parseUserID(r.id).id

Creates(t) == pc[t] = "create" /\ pc'[t] = "done"
Updates(t) == pc[t] = "update" /\ pc'[t] = "done"
Gets(t) == pc[t] = "idle" /\ pc'[t] = "done" /\ req'[t].kind = "GetUserByID"
Deletes(t) == pc[t] = "idle" /\ pc'[t] = "done" /\ req'[t].kind = "DeleteUser"

Answered(t, kind) == pc[t] = "done" /\ req[t].kind = kind

\* C1: a create whose username is held by a user and whose email is held by
\* none is answered 409 with the username conflict, and the table is unchanged.
C1_UsernameConflictIs409 ==
    [][\A t \in Threads :
        (/\ Creates(t)
         /\ Violated(users, 0, req[t].username, req[t].email) = {UsernameKey})
        => /\ resp'[t].status = StatusConflict
           /\ resp'[t].error = UsernameExistsMsg
           /\ users' = users]_vars

\* C2: of two answered creates with the same email, where one was answered
\* 201 and its user still holds the email, the other is answered 409 with the
\* email conflict, and exactly one user holds the email.
C2_DuplicateEmailIs409 ==
    \A t, u \in Threads :
        (/\ t # u
         /\ Answered(t, "CreateUser") /\ Answered(u, "CreateUser")
         /\ req[t].email = req[u].email
         /\ req[t].username # req[u].username
         /\ resp[u].status = StatusCreated
         /\ resp[u].user.ID \in Ids(users)
         /\ users[resp[u].user.ID].email = req[u].email
         /\ \A i \in Ids(users) \ {resp[u].user.ID} :
                users[i].username # req[t].username)
        => /\ resp[t].status = StatusConflict
           /\ resp[t].error = EmailExistsMsg
           /\ Cardinality({i \in Ids(users) : users[i].email = req[t].email}) = 1

\* C3: a get of a positive id that matches no row is answered 404.
C3_GetMissingIs404 ==
    [][\A t \in Threads :
        (Gets(t) /\ PathId(req'[t]) > 0 /\ PathId(req'[t]) \notin Ids(users))
        => /\ UserRepository_GetUserByID(users, PathId(req'[t])).err = SqlErrNoRows
           /\ resp'[t].status = StatusNotFound]_vars

\* C4: a delete of a positive id that matches no row is answered 404 and
\* changes nothing; a delete is answered 200 only when it removed a row.
C4_DeleteMissingIs404 ==
    [][\A t \in Threads :
        (Deletes(t) /\ PathId(req'[t]) > 0)
        => IF PathId(req'[t]) \in Ids(users)
           THEN resp'[t].status = StatusOK /\ PathId(req'[t]) \notin Ids(users')
           ELSE resp'[t].status = StatusNotFound /\ users' = users]_vars

\* C5: an update whose id matches no row when the UPDATE statement runs is
\* answered 404.
C5_UpdateMissingIs404 ==
    [][\A t \in Threads :
        (Updates(t) /\ PathId(req[t]) \notin Ids(users))
        => resp'[t].status = StatusNotFound]_vars

\* C6: an update answered 200 keeps the set of rows, keeps every other row,
\* keeps the row's id, password and created_at, stores the submitted username
\* and email, and with the current email submitted keeps the stored email.
C6_UpdateFrame ==
    [][\A t \in Threads :
        (Updates(t) /\ resp'[t].status = StatusOK)
        => /\ Ids(users') = Ids(users)
           /\ \A i \in Ids(users) \ {PathId(req[t])} : users'[i] = users[i]
           /\ PathId(req[t]) \in Ids(users) =>
                LET old == users[PathId(req[t])]
                    new == users'[PathId(req[t])]
                IN  /\ new.id = old.id
                    /\ new.password = old.password
                    /\ new.created_at = old.created_at
                    /\ new.username = req[t].username
                    /\ new.email = req[t].email
                    /\ req[t].email = old.email => new.email = old.email]_vars

\* an answered update changed the username of a row that has a neighbour,
\* and left its email as it was submitted
C6_Witness ==
    \E t \in Solo :
        /\ Answered(t, "UpdateUser")
        /\ resp[t].status = StatusOK
        /\ PathId(req[t]) \in Ids(users)
        /\ Cardinality(Ids(users)) = 2
        /\ users[PathId(req[t])].username = req[t].username
        /\ users[PathId(req[t])].email = req[t].email
        /\ users[PathId(req[t])].updated_at # users[PathId(req[t])].created_at
        /\ resp[t].user.UpdatedAt = users[PathId(req[t])].updated_at

\* C7: a create that passes the pre-check with its email unheld goes on to
\* the insert; an insert whose username and email no user holds is answered
\* 201 with an id that is positive and was on no row, and GetUserByID of that
\* id then returns the user, created and updated at the same time.
C7_CreateThenGet ==
    [][\A t \in Threads :
        /\ (/\ pc[t] = "idle" /\ req'[t].kind = "CreateUser"
            /\ ~SqlUserExists(users, req'[t].email))
           => pc'[t] = "create"
        /\ (Creates(t) /\ Violated(users, 0, req[t].username, req[t].email) = {})
           => /\ resp'[t].status = StatusCreated
              /\ LET id == resp'[t].user.ID
                     g == UserRepository_GetUserByID(users', id)
                 IN  /\ id > 0
                     /\ id \notin Ids(users)
                     /\ g.err = NilErr
                     /\ g.user.ID = id
                     /\ g.user.Username = req[t].username
                     /\ g.user.Email = req[t].email
                     /\ g.user.Password = HashPassword(Password)
                     /\ g.user.CreatedAt = g.user.UpdatedAt
                     /\ resp'[t].user = toUserResponse(g.user)]_vars

\* an answered create put its user next to an older one
C7_Witness ==
    \E t \in Solo :
        /\ Answered(t, "CreateUser")
        /\ resp[t].status = StatusCreated
        /\ resp[t].user.ID \in Ids(users)
        /\ \E i \in Ids(users) : i < resp[t].user.ID
        /\ users[resp[t].user.ID].username = req[t].username
        /\ users[resp[t].user.ID].created_at = users[resp[t].user.ID].updated_at

Paged(t) ==
    Answered(t, "GetUsersWithPagination") /\ resp[t].status = StatusOK

PageIds(t) == {resp[t].users[i].ID : i \in 1..Len(resp[t].users)}

NewestFirst(us) ==
    \A i, j \in 1..Len(us) : i < j => us[i].CreatedAt >= us[j].CreatedAt

\* C8: two answered pages of the same table (no row inserted or deleted
\* since the earlier fetch), of limit L at offsets 0 and L over 2L users, hold
\* L users each, share none, cover all, and are each newest first.
C8_TwoPagesPartition ==
    \A t, u \in Threads :
        (/\ t # u
         /\ Paged(t) /\ Paged(u)
         /\ writeSeen[t] = "none" /\ writeSeen[u] = "none"
         /\ resp[u].limit = resp[t].limit
         /\ resp[t].offset = 0
         /\ resp[u].offset = resp[t].limit
         /\ Cardinality(Ids(users)) = 2 * resp[t].limit)
        => /\ Len(resp[t].users) = resp[t].limit
           /\ Len(resp[u].users) = resp[t].limit
           /\ PageIds(t) \cap PageIds(u) = {}
           /\ PageIds(t) \cup PageIds(u) = Ids(users)
           /\ NewestFirst(resp[t].users) /\ NewestFirst(resp[u].users)

\* what clamping makes of a parameter: the default when absent, else the
\* integer the text denotes, brought into [lo, hi]
Clamped(text, default, lo, hi) ==
    IF text = <<>> THEN default ELSE Max(lo, Min(hi, DecimalValue(text)))

IsInteger(text) == IsDecimal(text)

\* C9: a paginate request whose limit and offset are each absent or an
\* integer is never answered 400, and its window is the clamped limit and
\* offset.
C9_WindowClamped ==
    \A t \in Threads :
        (/\ Answered(t, "GetUsersWithPagination")
         /\ req[t].limit = <<>> \/ IsInteger(req[t].limit)
         /\ req[t].offset = <<>> \/ IsInteger(req[t].offset))
        => /\ resp[t].status # StatusBadRequest
           /\ resp[t].limit = Clamped(req[t].limit, DefaultLimit, MinLimit, MaxLimit)
           /\ resp[t].offset = Clamped(req[t].offset, DefaultOffset, MinOffset, MaxOffset)

\* C10: a page never holds more than limit users, and unless a row was
\* inserted or deleted between the page fetch and the count it holds exactly
\* min(limit, max(0, total - offset)) users.
C10_PageMatchesTotal ==
    \A t \in Threads :
        /\ pc[t] = "count" => Len(page[t]) <= Window(req[t]).limit.n
        /\ Paged(t) =>
            /\ Len(resp[t].users) <= resp[t].limit
            /\ writeSeen[t] # "between" =>
                Len(resp[t].users) =
                    Min(resp[t].limit, Max(0, resp[t].total - resp[t].offset))

\* one answered page is cut by its limit and agrees with its total, while
\* another, fetched before an insert and counted after it, does not
C10_Witness ==
    \E t, u \in Threads :
        /\ Paged(t) /\ writeSeen[t] = "none"
        /\ Len(resp[t].users) = resp[t].limit /\ resp[t].total > resp[t].limit
        /\ Paged(u) /\ writeSeen[u] = "between"
        /\ Len(resp[u].users) #
                Min(resp[u].limit, Max(0, resp[u].total - resp[u].offset))

----------------------------------------------------------------------------
(* Properties of the pipeline, the lifecycle and the pool                  *)

Responded(c) == conn[c].stage = "done"
Entered(c, stage) == \E i \in 1..Len(conn[c].ctx.trace) : conn[c].ctx.trace[i] = stage

\* C11: every response carries an X-Request-ID header equal to the
\* correlation id stored in the request's context, which is the client's
\* X-Request-ID when that is non-empty and a generated one otherwise.
C11_ResponseCarriesRequestID ==
    \A c \in Conns :
        Responded(c) =>
            LET x == conn[c].ctx
            IN  /\ x.Header # <<>>
                /\ x.Header = x.RequestID
                /\ x.XRequestID # <<>> => x.RequestID = x.XRequestID
                /\ x.XRequestID = <<>> =>
                      \E read \in RandomReads : x.RequestID = generateRequestID(read)

\* C12: the correlation id attached to a request's context has at least 8
\* characters, whether the client supplied it or the pipeline generated it,
\* the generator's fallback included.
C12_RequestIDAtLeast8 ==
    \A c \in Conns :
        Entered(c, "RequestID") => Len(conn[c].ctx.RequestID) >= 8

\* C13: a preflight (OPTIONS) request to any path is answered 204 at once;
\* no endpoint handler runs for it, no storage call is made for it and the
\* error-surfacing stage writes no 500 body for it.
C13_PreflightShortCircuit ==
    \A c \in Conns :
        conn[c].stage # "idle" /\ conn[c].ctx.Method = "OPTIONS" =>
            /\ Responded(c)
            /\ conn[c].ctx.status = StatusNoContent
            /\ ~Entered(c, "handler") /\ conn[c].ctx.handler = ""
            /\ conn[c].ctx.storage = 0
            /\ conn[c].ctx.body # "Internal server error"

\* a preflight to the registered path /api/v1/users was answered
C13_Witness ==
    \E c \in Conns :
        /\ Responded(c)
        /\ conn[c].ctx.Method = "OPTIONS"
        /\ conn[c].ctx.Path = <<"api", "v1", "users">>
        /\ conn[c].ctx.status = StatusNoContent

\* App.Initialize returned an error in this step
InitializeFails ==
    /\ app.state = "Uninitialized"
    /\ app'.state \notin {"Uninitialized", "Killed"}
    /\ ~pool'.made

\* C14: if initialize() fails, the process ends with exit status 1 and
\* stays ended; without an initialized pool the application is never
\* Running or beyond, no listener exists and no request is served.
C14_FailedInitializeNeverRuns ==
    [][/\ InitializeFails => app'.state = "Exited" /\ app'.exit = 1
       /\ ~pool'.made =>
             /\ app'.state \notin {"Initialized", "Running", "ShuttingDown", "Stopped"}
             /\ listener' = "none"
             /\ \A c \in Conns : conn'[c] = Idle
       /\ app.exit = 1 => app' = app /\ listener' = listener /\ conn' = conn]_vars

\* the connectivity probe failed and the process has ended with status 1
C14_Witness ==
    /\ app.state = "Exited" /\ app.exit = 1
    /\ ~pool.made
    /\ backend = "unreachable"

\* the moves of the lifecycle, and the ways the process ends
LifecycleSteps ==
    {<<"Uninitialized", "Initialized">>, <<"Initialized", "Running">>,
     <<"Running", "ShuttingDown">>, <<"ShuttingDown", "Stopped">>,
     <<"Uninitialized", "Exited">>, <<"Stopped", "Exited">>,
     <<"Uninitialized", "Killed">>, <<"Initialized", "Killed">>}

\* C15: the lifecycle only moves Uninitialized, Initialized, Running,
\* ShuttingDown, Stopped; Running is left only on a received signal; the
\* pool is closed only after a signal was received; and once the signal is
\* received, run() eventually closes the pool and returns.
C15_LifecycleOrder ==
    /\ [][app'.state # app.state => <<app.state, app'.state>> \in LifecycleSteps]_vars
    /\ [][app.state = "Running" /\ app'.state # "Running" => quit > 0]_vars
    /\ [][pool'.closed /\ ~pool.closed => app.state = "ShuttingDown"]_vars
    /\ (app.state = "ShuttingDown") ~> (app.state = "Stopped" /\ pool.closed)

\* C16: once run() has received the termination signal the listener accepts
\* no further request, and no handler starts on a pool that is being or has
\* been closed.
C16_NoRequestAfterShutdown ==
    [][\A c \in Conns :
          conn[c].stage = "idle" /\ conn'[c].stage # "idle" =>
              /\ app.state \notin {"ShuttingDown", "Stopped"}
              /\ conn'[c].ctx.handler # "" => ~pool.closed]_vars

\* C17: Server.Close called any number of times in sequence, on a server
\* never initialized, on an open pool or on a closed one, returns no error,
\* and from the first call on an initialized server on the pool is closed.
C17_CloseIdempotent ==
    /\ \A i \in 1..Len(closer.errs) : closer.errs[i] = "nil"
    /\ closer.pending => closer.err = "nil"
    /\ (\E i \in 1..Len(closer.seen) : closer.seen[i] # "nil") => pool.made /\ pool.closed

\* Server.Close returned twice, having found the pool open and then closed
C17_Witness ==
    /\ closer.seen = <<"open", "closed">>
    /\ Len(closer.errs) = Len(closer.seen)
    /\ ~closer.pending

\* connection c gets its answer in this step
Answers(c) == conn[c].stage # "done" /\ conn'[c].stage = "done"

\* C18: with the backend unreachable or unresponsive the probe of GET /ready
\* and GET /health eventually fails, so they are answered 503; GET /ping and
\* GET /live are answered 200 in every storage state without storage access.
C18_ProbesAnswered ==
    /\ [][\A c \in Conns :
             Answers(c) =>
                 /\ conn'[c].ctx.handler \in {"Ping", "Liveness"} =>
                       conn'[c].ctx.status = StatusOK /\ conn'[c].ctx.storage = 0
                 /\ conn'[c].ctx.handler \in {"HealthCheck", "Readiness"}
                    /\ backend # "up" =>
                       conn'[c].ctx.status = StatusServiceUnavailable]_vars
    /\ \A c \in Conns :
          (conn[c].stage \in {"acquire", "query"})
              ~> (conn[c].stage = "done" \/ ~Alive(app))

NotLogger(stage) == stage # "Logger"

\* C19: a request to a registered endpoint that is no preflight reaches its
\* handler through correlation assignment, panic containment, error
\* surfacing and the cross-origin policy, in that order; correlation
\* assignment is the first stage of all, and the handler finds a
\* correlation id in the context.
C19_PipelineOrder ==
    \A c \in Conns :
        LET x == conn[c].ctx
        IN  /\ conn[c].stage # "idle" /\ x.Method # "OPTIONS"
               /\ Dispatch(x.Method, x.Path).kind = "route" => Entered(c, "handler")
            /\ Entered(c, "handler") =>
                  /\ SelectSeq(x.trace, NotLogger)
                        = <<"RequestID", "Recovery", "ErrorHandler", "CORS", "handler">>
                  /\ x.trace[1] = "RequestID"
                  /\ x.RequestID # <<>>

\* GET /api/v1/users was answered by its handler
C19_Witness ==
    \E c \in Conns :
        /\ Responded(c)
        /\ conn[c].ctx.handler = "GetAllUsers"
        /\ conn[c].ctx.status = StatusOK

\* C20: the connections leased at any moment never exceed the maximum that
\* NewDatabase configures, 25.
C20_LeasedWithinMaxConns == pool.leased <= MaxConns

\* C21: given the same calls from the same store, the generated repository
\* and the hand-written one return the same outcome (success, not found,
\* failure) for every call and leave the same store.
C21_Interchangeable ==
    /\ twin.users = users
    /\ twin.seq = seq
    /\ Outcome(twin.out) = Outcome(twin.ref)

\* C22: an error of Server.Start changes nothing in App.Run and does not
\* close the pool; App.Run leaves its wait only on a received signal, and
\* it returns what Server.Close returned: nil, or its error to main.
C22_ListenerFailureIgnored ==
    [][/\ listener' = "failed" /\ listener # "failed" => app' = app /\ pool' = pool
       /\ listener = "failed" /\ app.state = "Running" /\ app'.state # "Running" =>
             quit > 0 /\ app'.state = "ShuttingDown"
       /\ app.state = "ShuttingDown" /\ app'.state # "ShuttingDown" =>
             /\ pool.closed
             /\ \/ app.err = "nil" /\ app'.state = "Stopped"
                \/ app.err \notin {"", "nil"} /\ app' = Fatalf(app)
       /\ app'.state = "Stopped" => app'.err = "nil" /\ pool'.closed]_vars

\* Server.Start failed, a signal came, and App.Run returned nil
C22_Witness ==
    /\ listener = "failed"
    /\ app.state = "Stopped" /\ app.err = "nil"
    /\ pool.closed

====
